---- MODULE Spec2Model ----
(***************************************************************************)
(* NEMO authentication glue (NEMO/views/authentication.py): the Kerberos   *)
(* header backend, the LDAP backend and the login / logout views.          *)
(*                                                                         *)
(* Python strings are sequences of character codes, so that split(),       *)
(* partition() and b64decode() are computed and not assumed.  Passwords    *)
(* are never inspected by the code (only tested for emptiness and handed   *)
(* to the directory), so they are TLA+ strings.                            *)
(***************************************************************************)
EXTENDS Integers, Sequences, FiniteSets, TLC

VARIABLES
    AUTHENTICATION_BACKENDS, \* settings.AUTHENTICATION_BACKENDS (ordered)
    LDAP_SERVERS,            \* settings.LDAP_SERVERS (ordered)
    entry,                   \* which entry point this run exercises
    pc,                      \* position of the running handler
    request,                 \* the HTTP request being served
    username,                \* LDAP authenticate(): argument
    password,                \* LDAP authenticate(): argument
    server_index,            \* LDAP authenticate(): position of the for loop
    errors,                  \* LDAP authenticate(): local list `errors`
    is_authenticated_with_ldap, \* LDAP authenticate(): local flag
    connections,             \* ldap3 Connection() calls made so far, in order
    lookups,                 \* usernames given to User.objects.get(), in order
    log,                     \* lines written through auth_logger, in order
    result,                  \* what the backend call returned or raised
    session,                 \* user held by the session, or AnonymousUser
    response,                \* HTTP response of the view
    calls,                   \* authenticate() / login() / render() calls of the view
    failed_attempts          \* login POSTs that failed so far: credentials and response

vars == << AUTHENTICATION_BACKENDS, LDAP_SERVERS, entry, pc, request, username,
           password, server_index, errors, is_authenticated_with_ldap,
           connections, lookups, log, result, session, response, calls,
           failed_attempts >>

-----------------------------------------------------------------------------
(* Bounds *)

\* longest settings.LDAP_SERVERS list explored
MaxServers == 2
\* most whitespace-separated pieces in an Authorization header explored
MaxPieces == 3

-----------------------------------------------------------------------------
(* Strings and the user table *)

\* Python None where a string is expected: distinct from every string
None == << -1 >>

alice == << 97, 108, 105, 99, 101 >>
bob   == << 98, 111, 98 >>
carol == << 99, 97, 114, 111, 108 >>

\* NEMO.models.User rows: alice is active, bob is marked inactive, nobody else exists
UserTable == { [username |-> alice, is_active |-> TRUE],
               [username |-> bob,   is_active |-> FALSE] }

\* User.objects.get(username=...): the matching row; none matching is User.DoesNotExist
UserExists(name) == \E u \in UserTable : u.username = name
UserGet(name) == CHOOSE u \in UserTable : u.username = name

\* outcomes of a backend call
Return(u) == [kind |-> "return", user |-> u, exc |-> "-"]
Raise(e)  == [kind |-> "raise", user |-> None, exc |-> e]
NotCalled == [kind |-> "pending", user |-> None, exc |-> "-"]

AnonymousUser == None

-----------------------------------------------------------------------------
(* LDAPAuthenticationBackend *)

\* What a directory does when asked.  LDAPBindError is a subclass of
\* LDAPException; "LDAPException" below stands for any other LDAP error.
ConnectionOutcomes == { "ok", "LDAPBindError", "LDAPException" }

\* a server descriptor together with the behaviour of the directory behind it:
\* tls is what Tls(..., ca_certs_file=server.get('certificate')) does (an
\* unusable certificate file is an LDAPException before any connection)
DirectServers ==
    { [bind_as_authentication |-> TRUE, tls |-> "ok", search_bind |-> "ok",
       search |-> "found", user_bind |-> b] : b \in ConnectionOutcomes }

MisconfiguredServers ==
    { [bind_as_authentication |-> TRUE, tls |-> "LDAPException", search_bind |-> "ok",
       search |-> "found", user_bind |-> "ok"] }

SearchServers ==
    { [bind_as_authentication |-> FALSE, tls |-> "ok", search_bind |-> sb,
       search |-> "found", user_bind |-> "ok"] : sb \in { "LDAPBindError", "LDAPException" } }
    \cup
    { [bind_as_authentication |-> FALSE, tls |-> "ok", search_bind |-> "ok",
       search |-> s, user_bind |-> "ok"] : s \in { "none", "no_attribute" } }
    \cup
    { [bind_as_authentication |-> FALSE, tls |-> "ok", search_bind |-> "ok",
       search |-> "found", user_bind |-> b] : b \in ConnectionOutcomes }

Servers == DirectServers \cup MisconfiguredServers \cup SearchServers

SeqsUpTo(S, n) == UNION { [1..k -> S] : k \in 0..n }

\* mutant: the is_active check of lines 90-92 left out
LDAPPrecheckNoActiveCheck(name, pw) ==
    IF name = << >> \/ pw = ""
    THEN [outcome |-> Return(None), lookups |-> << >>, log |-> << >>]
    ELSE IF ~UserExists(name)
    THEN [outcome |-> Raise("User.DoesNotExist"), lookups |-> << name >>,
          log |-> << [level |-> "warning", what |-> "unknown_user", server |-> 0] >>]
    ELSE [outcome |-> NotCalled, lookups |-> << name >>, log |-> << >>]

\* lines 79-92: the checks made before any directory is contacted
LDAPPrecheck(name, pw) ==
    IF name = << >> \/ pw = ""
    THEN [outcome |-> Return(None), lookups |-> << >>, log |-> << >>]
    ELSE IF ~UserExists(name)
    THEN [outcome |-> Raise("User.DoesNotExist"), lookups |-> << name >>,
          log |-> << [level |-> "warning", what |-> "unknown_user", server |-> 0] >>]
    ELSE IF ~UserGet(name).is_active
    THEN [outcome |-> Raise("InactiveUserError"), lookups |-> << name >>,
          log |-> << [level |-> "warning", what |-> "inactive_user", server |-> 0] >>]
    ELSE [outcome |-> NotCalled, lookups |-> << name >>, log |-> << >>]

\* mutant: the search result of line 116 is not tested before binding
LDAPTryServerSkipsSearchCheck(server, i, pw) ==
    LET searchConn == [server |-> i, as |-> "bind_username", password |-> "bind_password"]
        userConn   == [server |-> i, as |-> "user", password |-> pw]
        userBind(before) ==
            [connections |-> Append(before, userConn),
             status |-> IF server.user_bind = "ok" THEN "accepted"
                        ELSE IF server.user_bind = "LDAPBindError" THEN "incorrect_password"
                        ELSE "ldap_error"]
    IN  IF server.tls # "ok"
        THEN [connections |-> << >>, status |-> "ldap_error"]
        ELSE IF ~server.bind_as_authentication
        THEN IF server.search_bind = "LDAPBindError"
             THEN [connections |-> << searchConn >>, status |-> "incorrect_password"]
             ELSE IF server.search_bind = "LDAPException"
             THEN [connections |-> << searchConn >>, status |-> "ldap_error"]
             ELSE userBind(<< searchConn >>)
        ELSE userBind(<< >>)

\* lines 97-137: one iteration of the loop over settings.LDAP_SERVERS
\* status: "accepted" (break), or the error appended to `errors`
LDAPTryServer(server, i, pw) ==
    LET searchConn == [server |-> i, as |-> "bind_username", password |-> "bind_password"]
        userConn   == [server |-> i, as |-> "user", password |-> pw]
        userBind(before) ==
            [connections |-> Append(before, userConn),
             status |-> IF server.user_bind = "ok" THEN "accepted"
                        ELSE IF server.user_bind = "LDAPBindError" THEN "incorrect_password"
                        ELSE "ldap_error"]
    IN  IF server.tls # "ok"
        THEN [connections |-> << >>, status |-> "ldap_error"]
        ELSE IF ~server.bind_as_authentication
        THEN IF server.search_bind = "LDAPBindError"
             THEN [connections |-> << searchConn >>, status |-> "incorrect_password"]
             ELSE IF server.search_bind = "LDAPException"
             THEN [connections |-> << searchConn >>, status |-> "ldap_error"]
             ELSE IF server.search # "found"
             THEN [connections |-> << searchConn >>, status |-> "no_results"]
             ELSE userBind(<< searchConn >>)
        ELSE userBind(<< >>)

\* mutant: the collected errors are dropped instead of logged
LDAPFinishSilent(name, authenticated, errs) ==
    IF authenticated
    THEN [outcome |-> Return(name), log |-> << >>]
    ELSE [outcome |-> Return(None), log |-> << >>]

\* lines 139-144: the return, and the log written on failure only
LDAPFinish(name, authenticated, errs) ==
    IF authenticated
    THEN [outcome |-> Return(name), log |-> << >>]
    ELSE [outcome |-> Return(None),
          log |-> [k \in 1..Len(errs) |->
                     [level |-> "warning", what |-> errs[k].what, server |-> errs[k].server]]]

LdapEnter ==
    /\ pc = "ldap_start"
    /\ LET pre == LDAPPrecheck(username, password)
       IN  /\ log' = log \o pre.log
           /\ lookups' = lookups \o pre.lookups
           /\ IF pre.outcome = NotCalled
              THEN /\ pc' = IF Len(LDAP_SERVERS) = 0 THEN "ldap_end" ELSE "ldap_loop"
                   /\ result' = result
              ELSE /\ pc' = "done"
                   /\ result' = pre.outcome
    /\ server_index' = 1
    /\ errors' = << >>
    /\ is_authenticated_with_ldap' = FALSE
    /\ UNCHANGED << AUTHENTICATION_BACKENDS, LDAP_SERVERS, entry, request, username,
                    password, connections, session, response, calls, failed_attempts >>

\* mutant: the break of line 133 left out
LdapServerNoBreak ==
    /\ pc = "ldap_loop"
    /\ server_index <= Len(LDAP_SERVERS)
    /\ LET try == LDAPTryServer(LDAP_SERVERS[server_index], server_index, password)
       IN  /\ connections' = connections \o try.connections
           /\ IF try.status = "accepted"
              THEN /\ is_authenticated_with_ldap' = TRUE
                   /\ log' = Append(log, [level |-> "debug", what |-> "authenticated",
                                          server |-> server_index])
                   /\ errors' = errors
              ELSE /\ is_authenticated_with_ldap' = is_authenticated_with_ldap
                   /\ log' = log
                   /\ errors' = Append(errors, [what |-> try.status, server |-> server_index])
           /\ pc' = IF server_index = Len(LDAP_SERVERS) THEN "ldap_end" ELSE "ldap_loop"
           /\ server_index' = server_index + 1
    /\ UNCHANGED << AUTHENTICATION_BACKENDS, LDAP_SERVERS, entry, request, username,
                    password, lookups, result, session, response, calls,
                    failed_attempts >>

LdapServer ==
    /\ pc = "ldap_loop"
    /\ server_index <= Len(LDAP_SERVERS)
    /\ LET try == LDAPTryServer(LDAP_SERVERS[server_index], server_index, password)
       IN  /\ connections' = connections \o try.connections
           /\ IF try.status = "accepted"
              THEN /\ is_authenticated_with_ldap' = TRUE
                   /\ log' = Append(log, [level |-> "debug", what |-> "authenticated",
                                          server |-> server_index])
                   /\ errors' = errors
                   /\ pc' = "ldap_end"
                   /\ server_index' = server_index
              ELSE /\ is_authenticated_with_ldap' = is_authenticated_with_ldap
                   /\ log' = log
                   /\ errors' = Append(errors, [what |-> try.status, server |-> server_index])
                   /\ pc' = IF server_index = Len(LDAP_SERVERS) THEN "ldap_end" ELSE "ldap_loop"
                   /\ server_index' = server_index + 1
    /\ UNCHANGED << AUTHENTICATION_BACKENDS, LDAP_SERVERS, entry, request, username,
                    password, lookups, result, session, response, calls,
                    failed_attempts >>

LdapReturn ==
    /\ pc = "ldap_end"
    /\ LET fin == LDAPFinish(username, is_authenticated_with_ldap, errors)
       IN  /\ result' = fin.outcome
           /\ log' = log \o fin.log
    /\ pc' = "done"
    /\ UNCHANGED << AUTHENTICATION_BACKENDS, LDAP_SERVERS, entry, request, username,
                    password, server_index, errors, is_authenticated_with_ldap,
                    connections, lookups, session, response, calls, failed_attempts >>

NoRequest == [method |-> "-", user |-> AnonymousUser, HTTP_AUTHORIZATION |-> None,
              POST_username |-> << >>, POST_password |-> "", GET_next |-> "-"]
NoResponse == [kind |-> "-", target |-> "-", incorrect |-> FALSE]

InitLDAP ==
    /\ AUTHENTICATION_BACKENDS = << "LDAPAuthenticationBackend" >>
    /\ LDAP_SERVERS \in SeqsUpTo(Servers, MaxServers)
    /\ entry = "LDAPAuthenticationBackend.authenticate"
    /\ pc = "ldap_start"
    /\ request = NoRequest
    /\ username \in { << >>, alice, bob, carol }
    /\ password \in { "", "secret" }
    /\ server_index = 1
    /\ errors = << >>
    /\ is_authenticated_with_ldap = FALSE
    /\ connections = << >>
    /\ lookups = << >>
    /\ log = << >>
    /\ result = NotCalled
    /\ session = AnonymousUser
    /\ response = NoResponse
    /\ calls = << >>
    /\ failed_attempts = {}

NextLDAP == LdapEnter \/ LdapServer \/ LdapReturn

SpecLDAP == InitLDAP /\ [][NextLDAP]_vars

-----------------------------------------------------------------------------
(* String operations of the Python runtime used by the backends *)

\* str.split() without argument splits on runs of whitespace
IsSpace(c) == c \in { 9, 10, 11, 12, 13, 28, 29, 30, 31, 32 }

RECURSIVE SplitFrom(_, _, _, _)
SplitFrom(s, k, cur, acc) ==
    IF k > Len(s)
    THEN IF cur = << >> THEN acc ELSE Append(acc, cur)
    ELSE IF IsSpace(s[k])
    THEN SplitFrom(s, k + 1, << >>, IF cur = << >> THEN acc ELSE Append(acc, cur))
    ELSE SplitFrom(s, k + 1, Append(cur, s[k]), acc)

Split(s) == SplitFrom(s, 1, << >>, << >>)

\* str.partition(sep)[0]: what precedes the first sep, the whole string without one
PartitionHead(s, sep) ==
    IF \E k \in 1..Len(s) : s[k] = sep
    THEN SubSeq(s, 1, (CHOOSE k \in 1..Len(s) :
                          s[k] = sep /\ \A j \in 1..(k - 1) : s[j] # sep) - 1)
    ELSE s

\* base64 alphabet: value of a character, 64 for a character outside it
B64Value(c) ==
    IF c >= 65 /\ c <= 90 THEN c - 65
    ELSE IF c >= 97 /\ c <= 122 THEN c - 71
    ELSE IF c >= 48 /\ c <= 57 THEN c + 4
    ELSE IF c = 43 THEN 62
    ELSE IF c = 47 THEN 63
    ELSE 64

B64Char(v) ==
    IF v <= 25 THEN v + 65
    ELSE IF v <= 51 THEN v + 71
    ELSE IF v <= 61 THEN v - 4
    ELSE IF v = 62 THEN 43
    ELSE 47

\* base64.b64decode(s) (validate=False): characters outside the alphabet are
\* skipped, a complete padding ends the input, leftover sextets are
\* binascii.Error
RECURSIVE B64DecodeFrom(_, _, _, _, _, _)
B64DecodeFrom(s, k, quad_pos, leftchar, pads, out) ==
    IF k > Len(s)
    THEN [ok |-> quad_pos = 0, bytes |-> out]
    ELSE IF s[k] = 61
    THEN IF quad_pos >= 2 /\ quad_pos + pads + 1 >= 4
         THEN [ok |-> TRUE, bytes |-> out]
         ELSE B64DecodeFrom(s, k + 1, quad_pos, leftchar,
                            IF quad_pos >= 2 THEN pads + 1 ELSE pads, out)
    ELSE LET v == B64Value(s[k])
         IN  IF v = 64
             THEN B64DecodeFrom(s, k + 1, quad_pos, leftchar, pads, out)
             ELSE IF quad_pos = 0
             THEN B64DecodeFrom(s, k + 1, 1, v, 0, out)
             ELSE IF quad_pos = 1
             THEN B64DecodeFrom(s, k + 1, 2, v % 16, 0,
                                Append(out, leftchar * 4 + v \div 16))
             ELSE IF quad_pos = 2
             THEN B64DecodeFrom(s, k + 1, 3, v % 4, 0,
                                Append(out, leftchar * 16 + v \div 4))
             ELSE B64DecodeFrom(s, k + 1, 0, 0, 0, Append(out, leftchar * 64 + v))

B64Decode(s) == B64DecodeFrom(s, 1, 0, 0, 0, << >>)

\* bytes.decode(): ASCII bytes are themselves; 0xFF, the only other byte the
\* explored headers hold, is never valid UTF-8 (UnicodeDecodeError)
Utf8Decode(bytes) ==
    [ok |-> \A k \in 1..Len(bytes) : bytes[k] < 128, text |-> bytes]

\* what the web server in front does: base64 of the credentials
RECURSIVE B64Encode(_)
B64Encode(bytes) ==
    IF Len(bytes) = 0 THEN << >>
    ELSE IF Len(bytes) = 1
    THEN << B64Char(bytes[1] \div 4), B64Char((bytes[1] % 4) * 16), 61, 61 >>
    ELSE IF Len(bytes) = 2
    THEN << B64Char(bytes[1] \div 4),
            B64Char((bytes[1] % 4) * 16 + bytes[2] \div 16),
            B64Char((bytes[2] % 16) * 4), 61 >>
    ELSE << B64Char(bytes[1] \div 4),
            B64Char((bytes[1] % 4) * 16 + bytes[2] \div 16),
            B64Char((bytes[2] % 16) * 4 + bytes[3] \div 64),
            B64Char(bytes[3] % 64) >> \o B64Encode(SubSeq(bytes, 4, Len(bytes)))

-----------------------------------------------------------------------------
(* RemoteUserAuthenticationBackend and                                       *)
(* NginxKerberosAuthorizationHeaderAuthenticationBackend                     *)

\* RemoteUserAuthenticationBackend.clean_username: username.partition('@')[0]
RemoteCleanUsername(name) == PartitionHead(name, 64)

Basic == << 66, 97, 115, 105, 99 >>

CleanValue(v) == [raised |-> FALSE, value |-> v, exc |-> "-"]
CleanRaise(e) == [raised |-> TRUE, value |-> None, exc |-> e]

\* mutant: the scheme test of lines 69-70 left out
NginxCleanUsernameAnyScheme(header) ==
    IF header = None \/ header = << >>
    THEN CleanValue(None)
    ELSE LET pieces == Split(header)
         IN  IF Len(pieces) # 2
             THEN CleanValue(None)
             ELSE LET raw == B64Decode(pieces[2])
                      txt == Utf8Decode(raw.bytes)
                  IN  IF ~raw.ok THEN CleanRaise("binascii.Error")
                      ELSE IF ~txt.ok THEN CleanRaise("UnicodeDecodeError")
                      ELSE CleanValue(PartitionHead(txt.text, 58))

\* NginxKerberosAuthorizationHeaderAuthenticationBackend.clean_username
NginxCleanUsername(header) ==
    IF header = None \/ header = << >>
    THEN CleanValue(None)
    ELSE LET pieces == Split(header)
         IN  IF Len(pieces) # 2
             THEN CleanValue(None)
             ELSE IF pieces[1] # Basic
             THEN CleanValue(None)
             ELSE LET raw == B64Decode(pieces[2])
                      txt == Utf8Decode(raw.bytes)
                  IN  IF ~raw.ok THEN CleanRaise("binascii.Error")
                      ELSE IF ~txt.ok THEN CleanRaise("UnicodeDecodeError")
                      ELSE CleanValue(PartitionHead(txt.text, 58))

\* lines 43-57: the lookup of the cleaned username and the checks on the row
NginxLookup(cleaned) ==
    IF cleaned.raised
    THEN [outcome |-> Raise(cleaned.exc), lookups |-> << >>, log |-> << >>]
    ELSE IF ~UserExists(cleaned.value)
    THEN [outcome |-> Return(None), lookups |-> << cleaned.value >>,
          log |-> << [level |-> "warning", what |-> "unknown_user", server |-> 0] >>]
    ELSE IF ~UserGet(cleaned.value).is_active
    THEN [outcome |-> Return(None), lookups |-> << cleaned.value >>,
          log |-> << [level |-> "warning", what |-> "inactive_user", server |-> 0] >>]
    ELSE [outcome |-> Return(cleaned.value), lookups |-> << cleaned.value >>,
          log |-> << [level |-> "debug", what |-> "authenticated", server |-> 0] >>]

\* NginxKerberosAuthorizationHeaderAuthenticationBackend.authenticate
NginxAuthenticate(header) == NginxLookup(NginxCleanUsername(header))

NginxBackendAuthenticate ==
    /\ pc = "nginx_start"
    /\ LET r == NginxAuthenticate(request.HTTP_AUTHORIZATION)
       IN  /\ result' = r.outcome
           /\ lookups' = lookups \o r.lookups
           /\ log' = log \o r.log
    /\ pc' = "done"
    /\ UNCHANGED << AUTHENTICATION_BACKENDS, LDAP_SERVERS, entry, request, username,
                    password, server_index, errors, is_authenticated_with_ldap,
                    connections, session, response, calls, failed_attempts >>

\* the identities the web server may assert: name, optional realm, optional
\* colon and bogus password
Realm == << 64, 82 >>
Credentials ==
    { n \o r \o t : n \in { alice, bob, carol },
                    r \in { << >>, Realm },
                    t \in { << >>, << 58 >>, << 58, 120 >>, << 58, 112, 64, 115 >> } }
    \cup { << 255 >> }

\* second pieces of a header: well-formed base64, and base64 cut short
CredentialPieces ==
    { B64Encode(c) : c \in Credentials }
    \cup { SubSeq(B64Encode(c), 1, Len(B64Encode(c)) - 1) : c \in { alice \o << 58, 120 >> } }

Schemes == { Basic, << 98, 97, 115, 105, 99 >>, << 66, 101, 97, 114, 101, 114 >> }
Separators == { << 32 >>, << 32, 32 >>, << 9 >> }

RECURSIVE Extras(_, _)
Extras(sep, n) == IF n <= 0 THEN << >> ELSE sep \o << 120 >> \o Extras(sep, n - 1)

\* request.META.get('HTTP_AUTHORIZATION', None)
Headers ==
    { None, << >>, << 32 >> }
    \cup Schemes
    \cup { sch \o sep \o c \o Extras(sep, n) :
             sch \in Schemes, sep \in Separators, c \in CredentialPieces,
             n \in 0..(MaxPieces - 2) }

InitNginx ==
    /\ AUTHENTICATION_BACKENDS = << "NginxKerberosAuthorizationHeaderAuthenticationBackend" >>
    /\ LDAP_SERVERS = << >>
    /\ entry = "NginxKerberosAuthorizationHeaderAuthenticationBackend.authenticate"
    /\ pc = "nginx_start"
    /\ request \in { [NoRequest EXCEPT !.method = "GET", !.HTTP_AUTHORIZATION = h] :
                       h \in Headers }
    /\ username = << >>
    /\ password = ""
    /\ server_index = 1
    /\ errors = << >>
    /\ is_authenticated_with_ldap = FALSE
    /\ connections = << >>
    /\ lookups = << >>
    /\ log = << >>
    /\ result = NotCalled
    /\ session = AnonymousUser
    /\ response = NoResponse
    /\ calls = << >>
    /\ failed_attempts = {}

NextNginx == NginxBackendAuthenticate

SpecNginx == InitNginx /\ [][NextNginx]_vars

-----------------------------------------------------------------------------
(* login_user, logout_user and the authenticate() dispatch they rely on *)

RemoteUserBackendName == "NEMO.views.authentication.RemoteUserAuthenticationBackend"
NginxBackendName == "NEMO.views.authentication.NginxKerberosAuthorizationHeaderAuthenticationBackend"
LDAPBackendName == "NEMO.views.authentication.LDAPAuthenticationBackend"

\* the for loop of LDAPAuthenticationBackend.authenticate, run to its end
RECURSIVE LDAPLoop(_, _, _, _, _)
LDAPLoopAfter(try, servers, i, pw, conns, errs) ==
    IF try.status = "accepted"
    THEN [authenticated |-> TRUE, connections |-> conns \o try.connections,
          errors |-> errs,
          log |-> << [level |-> "debug", what |-> "authenticated", server |-> i] >>]
    ELSE LDAPLoop(servers, i + 1, pw, conns \o try.connections,
                  Append(errs, [what |-> try.status, server |-> i]))

LDAPLoop(servers, i, pw, conns, errs) ==
    IF i > Len(servers)
    THEN [authenticated |-> FALSE, connections |-> conns, errors |-> errs, log |-> << >>]
    ELSE LDAPLoopAfter(LDAPTryServer(servers[i], i, pw), servers, i, pw, conns, errs)

\* lines 94-144 once the checks passed
LDAPAfterLoop(pre, loop, fin) ==
    [outcome |-> fin.outcome, connections |-> loop.connections,
     lookups |-> pre.lookups, log |-> pre.log \o loop.log \o fin.log]

LDAPAfterPrecheck(pre, name, loop) ==
    IF pre.outcome # NotCalled
    THEN [outcome |-> pre.outcome, connections |-> << >>,
          lookups |-> pre.lookups, log |-> pre.log]
    ELSE LDAPAfterLoop(pre, loop, LDAPFinish(name, loop.authenticated, loop.errors))

\* LDAPAuthenticationBackend.authenticate as one call
LDAPAuthenticate(name, pw, servers) ==
    LDAPAfterPrecheck(LDAPPrecheck(name, pw), name,
                      LDAPLoop(servers, 1, pw, << >>, << >>))

\* django.contrib.auth.authenticate(request, username=, password=): the
\* backends in order; RemoteUserBackend.authenticate(request, remote_user)
\* does not take these credentials and is skipped; the first user returned
\* wins; an exception other than PermissionDenied leaves the call
\* a backend's call with the shape of the LDAP backend's
BackendCall(backend, req, name, pw, servers) ==
    IF backend = NginxBackendName
    THEN [connections |-> << >>] @@ NginxAuthenticate(req.HTTP_AUTHORIZATION)
    ELSE LDAPAuthenticate(name, pw, servers)

\* the effects of a backend that returned None followed by those of the rest
ThenBackends(r, rest) ==
    [outcome |-> rest.outcome,
     connections |-> r.connections \o rest.connections,
     lookups |-> r.lookups \o rest.lookups,
     log |-> r.log \o rest.log]

RECURSIVE AuthenticateFrom(_, _, _, _, _, _)
AuthenticateAfter(r, backends, k, req, name, pw, servers) ==
    IF r.outcome = Return(None)
    THEN ThenBackends(r, AuthenticateFrom(backends, k + 1, req, name, pw, servers))
    ELSE r

AuthenticateFrom(backends, k, req, name, pw, servers) ==
    IF k > Len(backends)
    THEN [outcome |-> Return(None), connections |-> << >>, lookups |-> << >>, log |-> << >>]
    ELSE IF backends[k] = RemoteUserBackendName
    THEN AuthenticateFrom(backends, k + 1, req, name, pw, servers)
    ELSE AuthenticateAfter(BackendCall(backends[k], req, name, pw, servers),
                           backends, k, req, name, pw, servers)

\* the URL configuration: reverse('landing') and what resolve() accepts
Landing == "/"
UrlPatterns == { "/", "/calendar/" }
Resolves(url) == url \in UrlPatterns

Redirect(url) == [kind |-> "redirect", target |-> url, incorrect |-> FALSE]
LoginForm(flag) == [kind |-> "render", target |-> "login.html", incorrect |-> flag]
AuthorizationFailedPage ==
    [kind |-> "render", target |-> "authorization_failed.html", incorrect |-> FALSE]
UncaughtException == [kind |-> "exception", target |-> "-", incorrect |-> FALSE]
MethodNotAllowed == [kind |-> "405", target |-> "-", incorrect |-> FALSE]

IsAuthenticated(req) == req.user # AnonymousUser

\* mutant: the test for other backends of lines 155-158 left out
RemoteGateNoFallbackCheck(backends, req) ==
    IF \E k \in 1..Len(backends) : backends[k] \in { RemoteUserBackendName, NginxBackendName }
    THEN IF IsAuthenticated(req) THEN "redirect_landing" ELSE "continue"
    ELSE "continue"

\* lines 151-158: the backends that authenticate in middleware
RemoteGate(backends, req) ==
    IF \E k \in 1..Len(backends) : backends[k] \in { RemoteUserBackendName, NginxBackendName }
    THEN IF IsAuthenticated(req)
         THEN "redirect_landing"
         ELSE IF \A k \in 1..Len(backends) :
                     backends[k] \in { RemoteUserBackendName, NginxBackendName }
              THEN "authorization_failed"
              ELSE "continue"
    ELSE "continue"

\* mutant: resolve() of line 178 left out
NextPageUnvalidated(req) ==
    IF req.GET_next # "-" THEN req.GET_next ELSE Landing

\* lines 176-180: the redirect target after login()
NextPage(req) ==
    IF req.GET_next # "-" /\ Resolves(req.GET_next) THEN req.GET_next ELSE Landing

\* mutant: `if user:` of line 174 left out, login() on any returned value
CredentialResponseLoginOnNone(outcome, req) ==
    IF outcome.kind = "raise"
    THEN IF outcome.exc \in { "User.DoesNotExist", "InactiveUserError" }
         THEN [response |-> AuthorizationFailedPage, login |-> FALSE,
               calls |-> << "render:authorization_failed.html" >>]
         ELSE [response |-> UncaughtException, login |-> FALSE, calls |-> << >>]
    ELSE [response |-> Redirect(NextPage(req)), login |-> TRUE, calls |-> << "login" >>]

\* mutant: line 182 left out, the form comes back without the flag
CredentialResponseNoFlag(outcome, req) ==
    IF outcome.kind = "raise"
    THEN IF outcome.exc \in { "User.DoesNotExist", "InactiveUserError" }
         THEN [response |-> AuthorizationFailedPage, login |-> FALSE,
               calls |-> << "render:authorization_failed.html" >>]
         ELSE [response |-> UncaughtException, login |-> FALSE, calls |-> << >>]
    ELSE IF outcome.user # None
    THEN [response |-> Redirect(NextPage(req)), login |-> TRUE, calls |-> << "login" >>]
    ELSE [response |-> LoginForm(FALSE), login |-> FALSE, calls |-> << "render:login.html" >>]

\* lines 169-183: what the view does with the outcome of authenticate()
CredentialResponse(outcome, req) ==
    IF outcome.kind = "raise"
    THEN IF outcome.exc \in { "User.DoesNotExist", "InactiveUserError" }
         THEN [response |-> AuthorizationFailedPage, login |-> FALSE,
               calls |-> << "render:authorization_failed.html" >>]
         ELSE [response |-> UncaughtException, login |-> FALSE, calls |-> << >>]
    ELSE IF outcome.user # None
    THEN [response |-> Redirect(NextPage(req)), login |-> TRUE, calls |-> << "login" >>]
    ELSE [response |-> LoginForm(TRUE), login |-> FALSE, calls |-> << "render:login.html" >>]

\* lines 166-183: the credential check of a POST
LoginPost(auth, cred) ==
    /\ result' = auth.outcome
    /\ connections' = auth.connections
    /\ lookups' = auth.lookups
    /\ log' = auth.log
    /\ calls' = << "authenticate" >> \o cred.calls
    /\ session' = IF cred.login THEN auth.outcome.user ELSE session
    /\ response' = cred.response
    /\ failed_attempts' =
          IF cred.login THEN failed_attempts
          ELSE failed_attempts \cup { [username |-> request.POST_username,
                                       password |-> request.POST_password,
                                       response |-> cred.response] }

LoginCredentials(auth) == LoginPost(auth, CredentialResponse(auth.outcome, request))

LoginAfterGate(gate) ==
    IF gate = "redirect_landing"
    THEN /\ response' = Redirect(Landing)
         /\ UNCHANGED << calls, result, connections, lookups, log, session,
                         failed_attempts >>
    ELSE IF gate = "authorization_failed"
    THEN /\ response' = AuthorizationFailedPage
         /\ calls' = << "render:authorization_failed.html" >>
         /\ UNCHANGED << result, connections, lookups, log, session, failed_attempts >>
    ELSE IF request.method = "GET"
    THEN /\ response' = LoginForm(FALSE)
         /\ calls' = << "render:login.html" >>
         /\ UNCHANGED << result, connections, lookups, log, session, failed_attempts >>
    ELSE LoginCredentials(AuthenticateFrom(AUTHENTICATION_BACKENDS, 1, request,
                                           request.POST_username,
                                           request.POST_password, LDAP_SERVERS))

\* login_user
LoginUser ==
    /\ entry = "login_user"
    /\ pc = "view_start"
    /\ LoginAfterGate(RemoteGate(AUTHENTICATION_BACKENDS, request))
    /\ pc' = "done"
    /\ UNCHANGED << AUTHENTICATION_BACKENDS, LDAP_SERVERS, entry, request, username,
                    password, server_index, errors, is_authenticated_with_ldap >>

\* logout_user (GET only)
LogoutUser ==
    /\ entry = "logout_user"
    /\ pc = "view_start"
    /\ IF request.method = "GET"
       THEN /\ session' = AnonymousUser
            /\ response' = Redirect(Landing)
            /\ calls' = << "logout" >>
       ELSE /\ response' = MethodNotAllowed
            /\ UNCHANGED << session, calls >>
    /\ pc' = "done"
    /\ UNCHANGED << AUTHENTICATION_BACKENDS, LDAP_SERVERS, entry, request, username,
                    password, server_index, errors, is_authenticated_with_ldap,
                    connections, lookups, log, result, failed_attempts >>

AliceHeader == Basic \o << 32 >> \o B64Encode(alice \o << 58, 120 >>)
CutHeader == SubSeq(AliceHeader, 1, Len(AliceHeader) - 1)

\* the requests explored: to login_user and to logout_user
LoginRequests ==
    { [method |-> "GET", user |-> AnonymousUser, HTTP_AUTHORIZATION |-> x[1],
       POST_username |-> << >>, POST_password |-> "", GET_next |-> x[2]] :
         x \in { << None, "-" >>, << AliceHeader, "/calendar/" >> } }
    \cup
    { [method |-> "POST", user |-> AnonymousUser, HTTP_AUTHORIZATION |-> None,
       POST_username |-> c[1], POST_password |-> c[2], GET_next |-> "-"] :
         c \in { << << >>, "" >>, << alice, "" >>, << alice, "secret" >>,
                 << bob, "secret" >>, << carol, "secret" >> } }
    \cup
    { [method |-> "POST", user |-> AnonymousUser, HTTP_AUTHORIZATION |-> x[1],
       POST_username |-> alice, POST_password |-> "secret", GET_next |-> x[2]] :
         x \in { << None, "/calendar/" >>, << None, "/nope/" >>,
                 << None, "https://elsewhere.example/" >>,
                 << AliceHeader, "/calendar/" >>, << CutHeader, "/nope/" >> } }

LogoutRequests ==
    { [NoRequest EXCEPT !.method = m] : m \in { "GET", "POST" } }

\* settings.AUTHENTICATION_BACKENDS: the non-empty lists of the three backends,
\* none named twice
BackendLists ==
    { b \in SeqsUpTo({ RemoteUserBackendName, NginxBackendName, LDAPBackendName }, 3) :
        /\ Len(b) > 0
        /\ \A i \in 1..Len(b) : \A j \in 1..Len(b) : i # j => b[i] # b[j] }

\* the next request of the same browser arrives: request.user is the session's user
NextRequest ==
    /\ pc = "done"
    /\ \E e \in { "login_user", "logout_user" } :
        \E r \in (IF e = "login_user" THEN LoginRequests ELSE LogoutRequests) :
            /\ entry' = e
            /\ request' = [r EXCEPT !.user = session]
    /\ pc' = "view_start"
    /\ connections' = << >>
    /\ lookups' = << >>
    /\ log' = << >>
    /\ calls' = << >>
    /\ result' = NotCalled
    /\ response' = NoResponse
    /\ UNCHANGED << AUTHENTICATION_BACKENDS, LDAP_SERVERS, username, password,
                    server_index, errors, is_authenticated_with_ldap, session,
                    failed_attempts >>

InitLogin ==
    /\ AUTHENTICATION_BACKENDS \in BackendLists
    \* the directories explored behind the login view bind directly
    /\ LDAP_SERVERS \in SeqsUpTo(DirectServers, MaxServers)
    /\ session \in { AnonymousUser, alice }
    /\ \E e \in { "login_user", "logout_user" } :
        \E r \in (IF e = "login_user" THEN LoginRequests ELSE LogoutRequests) :
            /\ entry = e
            /\ request = [r EXCEPT !.user = session]
    /\ pc = "view_start"
    /\ username = << >>
    /\ password = ""
    /\ server_index = 1
    /\ errors = << >>
    /\ is_authenticated_with_ldap = FALSE
    /\ connections = << >>
    /\ lookups = << >>
    /\ log = << >>
    /\ result = NotCalled
    /\ response = NoResponse
    /\ calls = << >>
    /\ failed_attempts = {}

NextLogin == LoginUser \/ LogoutUser \/ NextRequest

SpecLogin == InitLogin /\ [][NextLogin]_vars

-----------------------------------------------------------------------------
(* Properties of LDAPAuthenticationBackend.authenticate *)

\* the arguments name an existing, active user and carry a password
ValidActiveCredentials ==
    /\ username # << >>
    /\ password # ""
    /\ \E u \in UserTable : u.username = username /\ u.is_active

\* the server accepts the bind as the user (after a search that found the entry)
Accepts(server) ==
    /\ server.tls = "ok"
    /\ server.user_bind = "ok"
    /\ server.bind_as_authentication
       \/ (server.search_bind = "ok" /\ server.search = "found")

SomeServerAccepts == \E i \in 1..Len(LDAP_SERVERS) : Accepts(LDAP_SERVERS[i])

LdapDone == entry = "LDAPAuthenticationBackend.authenticate" /\ pc = "done"

\* indices of the servers a Connection() was opened to, in the order of the calls
ContactedServers == { connections[k].server : k \in 1..Len(connections) }

\* C1: for a non-empty username and password of an existing active user,
\* authenticate returns that user iff at least one configured server accepts
\* the bind as that user (in search-then-bind mode after a search that found
\* the entry); if none does, the empty list included, it returns None.
C1_ReturnsUserIffSomeServerAccepts ==
    (LdapDone /\ ValidActiveCredentials) =>
        /\ (result = Return(username)) <=> SomeServerAccepts
        /\ ~SomeServerAccepts => result = Return(None)

C1_Witness ==
    /\ LdapDone /\ ValidActiveCredentials
    /\ Len(LDAP_SERVERS) = 2
    /\ ~Accepts(LDAP_SERVERS[1]) /\ ~LDAP_SERVERS[2].bind_as_authentication
    /\ Accepts(LDAP_SERVERS[2])
    /\ result = Return(alice)

\* the servers the loop has evaluated: those with an entry in `errors` and the
\* one reported as accepting
EvaluatedServers ==
    { errors[k].server : k \in 1..Len(errors) }
    \cup { log[k].server : k \in { n \in 1..Len(log) : log[n].level = "debug" } }

Logged(i) == \E k \in 1..Len(log) : log[k].level = "warning" /\ log[k].server = i

\* C3 (as claimed): each failure met on any server is written to the log,
\* whatever the outcome on the servers evaluated after it.
C3_EveryFailureLogged ==
    LdapDone => \A i \in EvaluatedServers : ~Accepts(LDAP_SERVERS[i]) => Logged(i)

\* C3 (amended): the failures met are written to the log, in the order of the
\* servers, when no server accepted the bind; when a server accepted it, the
\* failures met on the servers before it are discarded and no warning is logged.
C3_FailuresLoggedOnlyOnOverallFailure ==
    (LdapDone /\ ValidActiveCredentials) =>
        IF SomeServerAccepts
        THEN \A k \in 1..Len(log) : log[k].level # "warning"
        ELSE /\ Len(log) = Len(LDAP_SERVERS)
             /\ \A i \in 1..Len(LDAP_SERVERS) :
                    log[i].level = "warning" /\ log[i].server = i

C3_Witness ==
    /\ LdapDone /\ ValidActiveCredentials
    /\ Len(LDAP_SERVERS) = 2
    /\ ~SomeServerAccepts
    /\ Logged(1) /\ Logged(2)

\* C10: no connection is opened to any directory server, so the password is
\* sent to none, unless username and password are both non-empty and the
\* username is that of an existing user marked active; an empty username or
\* password returns None, an unknown username raises User.DoesNotExist and an
\* inactive user raises InactiveUserError.
C10_NoDirectoryContactBeforeChecks ==
    /\ connections # << >> => ValidActiveCredentials
    /\ LdapDone =>
          /\ (username = << >> \/ password = "") => result = Return(None)
          /\ (username # << >> /\ password # ""
                /\ ~\E u \in UserTable : u.username = username)
                => result = Raise("User.DoesNotExist")
          /\ (username # << >> /\ password # ""
                /\ \E u \in UserTable : u.username = username /\ ~u.is_active)
                => result = Raise("InactiveUserError")

C10_Witness ==
    /\ LdapDone
    /\ username = bob /\ password = "secret"
    /\ Len(LDAP_SERVERS) = 2 /\ Accepts(LDAP_SERVERS[1])
    /\ result = Raise("InactiveUserError")
    /\ connections = << >>

\* the step-by-step loop and the single call agree
LdapStepsMatchCall ==
    LdapDone =>
        LDAPAuthenticate(username, password, LDAP_SERVERS) =
            [outcome |-> result, connections |-> connections,
             lookups |-> lookups, log |-> log]

-----------------------------------------------------------------------------
(* Properties of NginxKerberosAuthorizationHeaderAuthenticationBackend *)

NginxDone ==
    entry = "NginxKerberosAuthorizationHeaderAuthenticationBackend.authenticate" /\ pc = "done"

Header == request.HTTP_AUTHORIZATION

\* the header has exactly the two whitespace-separated pieces "Basic" and credentials
BasicShaped ==
    /\ Header # None
    /\ Len(Split(Header)) = 2
    /\ Split(Header)[1] = Basic

\* the credentials decode (base64, then UTF-8)
Decodable ==
    /\ BasicShaped
    /\ B64Decode(Split(Header)[2]).ok
    /\ Utf8Decode(B64Decode(Split(Header)[2]).bytes).ok

\* the decoded credentials up to the colon
BeforeColon == PartitionHead(B64Decode(Split(Header)[2]).bytes, 58)

\* C8 (as claimed): the username looked up is the part of the decoded
\* credentials before the colon with the realm suffix stripped, so it never
\* contains '@'.
C8_LookupHasRealmStripped ==
    (NginxDone /\ Decodable) =>
        /\ lookups = << RemoteCleanUsername(BeforeColon) >>
        /\ \A k \in 1..Len(lookups[1]) : lookups[1][k] # 64

\* C9: authenticate returns a user iff the header has exactly the two pieces
\* "Basic" and the credentials and the extracted username is that of an
\* existing user marked active; for an absent header, a header of any other
\* shape, an unknown username and an inactive user it returns None as a value
\* and logs a warning for the unknown and the inactive case.
C9_UserIffBasicHeaderOfActiveUser ==
    NginxDone =>
        /\ (result.kind = "return" /\ result.user # None) <=>
              (Decodable /\ \E u \in UserTable : u.username = BeforeColon /\ u.is_active)
        /\ (result.kind = "return" /\ result.user # None) => result.user = BeforeColon
        /\ ~BasicShaped => result = Return(None)
        /\ (Decodable /\ ~\E u \in UserTable : u.username = BeforeColon) =>
              /\ result = Return(None)
              /\ \E k \in 1..Len(log) :
                    log[k].level = "warning" /\ log[k].what = "unknown_user"
        /\ (Decodable /\ \E u \in UserTable : u.username = BeforeColon /\ ~u.is_active) =>
              /\ result = Return(None)
              /\ \E k \in 1..Len(log) :
                    log[k].level = "warning" /\ log[k].what = "inactive_user"

C9_Witness ==
    /\ NginxDone
    /\ Decodable
    /\ BeforeColon = bob
    /\ result = Return(None)
    /\ Len(log) = 1 /\ log[1].what = "inactive_user"

-----------------------------------------------------------------------------
(* Properties of login_user *)

LoginDone == entry = "login_user" /\ pc = "done"

Called(c) == \E k \in 1..Len(calls) : calls[k] = c

\* only backends that authenticate in middleware are configured
RemoteOnly ==
    /\ Len(AUTHENTICATION_BACKENDS) > 0
    /\ \A k \in 1..Len(AUTHENTICATION_BACKENDS) :
          AUTHENTICATION_BACKENDS[k] \in { RemoteUserBackendName, NginxBackendName }

NeverReachesCredentials ==
    /\ ~Called("render:login.html")
    /\ ~Called("authenticate")
    /\ ~Called("login")

\* C5 (as claimed): with the remote-user or the header backend configured and
\* no other backend, login_user answers every request, GET and POST alike, with
\* the authorization-failed page and never renders the form, never calls
\* authenticate() and never calls login().
C5_RemoteOnlyAlwaysAuthorizationFailed ==
    (LoginDone /\ RemoteOnly) =>
        response = AuthorizationFailedPage /\ NeverReachesCredentials

\* C5 (amended): in that configuration login_user answers a request whose user
\* is not authenticated with the authorization-failed page and a request whose
\* user is already authenticated with a redirect to the landing page; in both
\* cases it never renders the form, never calls authenticate() or login() and
\* leaves the session alone.
C5_RemoteOnlyRejectsUnauthenticated ==
    (LoginDone /\ RemoteOnly) =>
        /\ response = IF request.user = AnonymousUser
                      THEN AuthorizationFailedPage ELSE Redirect(Landing)
        /\ NeverReachesCredentials
        /\ session = request.user

C5_Witness ==
    /\ LoginDone /\ RemoteOnly
    /\ request.method = "POST" /\ request.POST_username = alice
    /\ request.user = AnonymousUser
    /\ response = AuthorizationFailedPage

\* C6: after a successful login the redirect target is the "next" parameter
\* only when it resolves in the URL resolver; when it is absent or does not
\* resolve the target is the landing page; no successful login redirects to a
\* target the resolver rejects.
C6_RedirectTargetIsValidated ==
    (LoginDone /\ Called("login")) =>
        /\ response.kind = "redirect"
        /\ Resolves(response.target)
        /\ response.target = IF request.GET_next # "-" /\ Resolves(request.GET_next)
                             THEN request.GET_next ELSE Landing

C6_Witness ==
    /\ LoginDone /\ Called("login")
    /\ request.GET_next = "https://elsewhere.example/"
    /\ response = Redirect(Landing)

\* C7: login_user calls login() iff the request is a POST that reaches the
\* credential check and authenticate() returned a user; a GET, an
\* authenticate() result of None and a User.DoesNotExist or InactiveUserError
\* raised by a backend leave the session unchanged.
C7_SessionIffAuthenticated ==
    LoginDone =>
        /\ Called("login") <=>
              /\ request.method = "POST"
              /\ Called("authenticate")
              /\ result.kind = "return" /\ result.user # None
        /\ Called("login") => session = result.user
        /\ (\/ request.method = "GET"
            \/ (Called("authenticate") /\ result = Return(None))
            \/ (Called("authenticate") /\ result.kind = "raise"))
              => session = request.user

C7_Witness ==
    /\ LoginDone
    /\ request.user = AnonymousUser
    /\ Called("login")
    /\ session = alice
    /\ Len(connections) = 2

\* failed login POSTs so far whose credentials were complete: the username
\* was unknown, the account inactive, the password wrong or a directory failing
FactorFailures ==
    { a \in failed_attempts :
        a.username # << >> /\ a.password # "" /\ a.response.kind = "render" }

\* C4 (as claimed): unknown username, inactive account, wrong password and
\* failing directory server all get the same kind of generic response, so two
\* failed attempts are indistinguishable to the end user.
C4_FailuresIndistinguishable ==
    \A a1 \in FactorFailures : \A a2 \in FactorFailures : a1.response = a2.response

\* the posted credentials are decided by the LDAP backend: it is configured
\* and the header backend, if configured too, gets no Authorization header
DecidedByLDAP ==
    /\ \E k \in 1..Len(AUTHENTICATION_BACKENDS) : AUTHENTICATION_BACKENDS[k] = LDAPBackendName
    /\ request.HTTP_AUTHORIZATION = None

PostedUserRows == { u \in UserTable : u.username = request.POST_username }

\* C4 (amended): a failed POST gets one of two generic pages, neither carrying
\* the specifics: the authorization-failed page for an unknown username and
\* for an inactive account (the LDAP backend raises), and the login form with
\* user_name_or_password_incorrect set for a wrong password, a failing
\* directory server and empty credentials (authenticate() returns None).  The
\* two groups are distinguishable from each other.
C4_FailuresGetOneOfTwoGenericPages ==
    (LoginDone /\ request.method = "POST" /\ Called("authenticate") /\ ~Called("login")) =>
        /\ (result.kind = "raise" /\ result.exc \in { "User.DoesNotExist", "InactiveUserError" })
              => response = AuthorizationFailedPage
        /\ result = Return(None) => response = LoginForm(TRUE)
        /\ DecidedByLDAP =>
              IF request.POST_username = << >> \/ request.POST_password = ""
              THEN response = LoginForm(TRUE)
              ELSE IF PostedUserRows = {} \/ \E u \in PostedUserRows : ~u.is_active
              THEN response = AuthorizationFailedPage
              ELSE response = LoginForm(TRUE)

C4_Witness ==
    /\ LoginDone /\ request.method = "POST" /\ DecidedByLDAP
    /\ request.POST_username = carol
    /\ response = AuthorizationFailedPage
    /\ \E a \in FactorFailures : a.username = alice /\ a.response = LoginForm(TRUE)

====
